---- MODULE Spec2Model ----
(***************************************************************************)
(* Order and money-transfer orchestration of KIH_API:                      *)
(*   wise/models.py   Transfer.execute and the lookups it calls            *)
(*   ibkr/models.py   PlaceOrder, CancelOrder, PlaceOrderResponse          *)
(* The program is single threaded: one orchestration call runs at a time,  *)
(* one step per external call.  Upstream replies are chosen when the call  *)
(* is issued.                                                              *)
(***************************************************************************)
EXTENDS Integers, Sequences, FiniteSets, TLC

VARIABLES
    op,             \* the orchestration method that is running, or "idle"
    pc,             \* position inside that method
    calls,          \* brokerage / transfer-provider calls issued so far, in order
    notifications,  \* communication.telegram.send_message calls so far, in order
    outcome,        \* how the method ended: nothing yet, a return value, an exception
    args,           \* arguments of the running method (or of the constructor)
    loc,            \* local variables of the running method
    order,          \* the PlaceOrder request object, once constructed
    tokens_sent     \* custom order ids the brokerage has received, in order

vars == <<op, pc, calls, notifications, outcome, args, loc, order, tokens_sent>>

(***************************************************************************)
(* Bounds                                                                  *)
(***************************************************************************)
MaxAmount == 4          \* amounts and balances range over 0..MaxAmount half-cents
MaxProfiles == 2        \* longest profile list the upstream returns
MaxRecipients == 2      \* longest recipient list the upstream returns
MaxBalances == 2        \* longest balance list of an account
MaxPriceInt == 12       \* the largest int passed as a price
MaxPriceTenths == 125   \* the largest float passed as a price, in tenths (12.5)
MaxQuantity == 1        \* order quantities range over 1..MaxQuantity
MaxSearchResults == 2   \* longest symbol-search result list
MaxExecutions == 2
MaxLiveOrders == 2      \* execute() calls a caller makes over several requests

(***************************************************************************)
(* Values                                                                  *)
(***************************************************************************)
\* A Decimal amount of money is an integer number of half-cents (0.005), the
\* coarsest unit in which quantize(Decimal("0.01")) is not the identity.
Amounts == 0..MaxAmount

\* global_common.Currency members a caller passes (by value).
Currencies == {"USD", "EUR"}
\* Currency codes the transfer provider reports on balances; "JPY" has no
\* member in global_common.Currency.
UpstreamCurrencies == Currencies \cup {"JPY"}

ProfileTypes == {"personal", "business"}
AccountNumbers == {"123", "456"}
FundStatuses == {"COMPLETED", "REJECTED"}
ErrorMessages == {"None", "declined"}

\* How an external call ends: a reply, a timeout / network failure, or an
\* http_requests.ClientErrorException.
CallResults == {"ok", "transport", "client"}

NoneProfile == [id |-> 0, type |-> "None"]
NoneRecipient == [account_id |-> 0, is_self_owned |-> FALSE, account_number |-> "None"]
NoneBalance == [currency |-> "None", balance |-> 0]
NoOutcome == [kind |-> "none"]
NoMessage == [text |-> "None"]
UpstreamMessage == [text |-> "upstream"]     \* str(e) of an upstream client error
NoneValue == [type |-> "None"]               \* Python's None as a return value
NoArgs == [none |-> TRUE]
NoLocals == [none |-> TRUE]

RECURSIVE SeqsUpTo(_, _)
SeqsUpTo(S, n) ==
    IF n = 0 THEN {<<>>}
    ELSE LET shorter == SeqsUpTo(S, n - 1)
         IN  shorter \cup {Append(s, x) : s \in shorter, x \in S}

\* wise_models.UserProfiles.call(): ids are positions in the list.
ProfileReplies ==
    {[i \in 1..Len(ts) |-> [id |-> i, type |-> ts[i]]] : ts \in SeqsUpTo(ProfileTypes, MaxProfiles)}

\* wise_models.Recipient.call(profile_id)
RecipientReplies ==
    {[i \in 1..Len(rs) |-> [account_id |-> i, is_self_owned |-> rs[i].is_self_owned,
                            account_number |-> rs[i].account_number]] :
        rs \in SeqsUpTo([is_self_owned : BOOLEAN, account_number : AccountNumbers], MaxRecipients)}

\* wise_models.Account.call(profile_id): no account, or one account with its balances.
BalanceLists == SeqsUpTo([currency : UpstreamCurrencies, balance : Amounts], MaxBalances)
AccountReplies == {<<>>} \cup {<<[balances |-> bl]>> : bl \in BalanceLists}

(***************************************************************************)
(* Pure functions                                                          *)
(***************************************************************************)
\* Decimal.quantize(Decimal("0.01")) under the default ROUND_HALF_EVEN, then
\* "{:,}": the string shows a whole number of cents.  The result is that
\* number of cents.
get_formatted_string_from_decimal_HalfUp(number) == (number + 1) \div 2

get_formatted_string_from_decimal(number) ==
    LET q == number \div 2
        r == number % 2
    IN  IF r = 0 THEN q
        ELSE IF q % 2 = 0 THEN q ELSE q + 1

\* The loop of UserProfile.get_by_profile_type over UserProfile.get_all().
RECURSIVE ScanProfiles(_, _, _)
ScanProfiles(list, profile_type, return_user_profile) ==
    IF list = <<>> THEN [raised |-> FALSE, value |-> return_user_profile]
    ELSE IF Head(list).type = profile_type
         THEN IF return_user_profile = NoneProfile
              THEN ScanProfiles(Tail(list), profile_type, Head(list))
              ELSE [raised |-> TRUE, value |-> NoneProfile]
         ELSE ScanProfiles(Tail(list), profile_type, return_user_profile)

UserProfile_get_by_profile_type_FirstMatch(list, profile_type) ==
    IF \E i \in 1..Len(list) : list[i].type = profile_type
    THEN [raised |-> FALSE,
          value |-> list[CHOOSE i \in 1..Len(list) :
                            /\ list[i].type = profile_type
                            /\ \A j \in 1..(i - 1) : list[j].type # profile_type]]
    ELSE [raised |-> FALSE, value |-> NoneProfile]

UserProfile_get_by_profile_type(list, profile_type) ==
    ScanProfiles(list, profile_type, NoneProfile)

\* The loop of Recipient.get_by_account_number_and_profile_type.
RECURSIVE ScanRecipients(_, _, _)
ScanRecipients(list, account_number, return_recipient) ==
    IF list = <<>> THEN [raised |-> FALSE, value |-> return_recipient]
    ELSE IF Head(list).account_number = account_number
         THEN IF return_recipient = NoneRecipient
              THEN ScanRecipients(Tail(list), account_number, Head(list))
              ELSE [raised |-> TRUE, value |-> NoneRecipient]
         ELSE ScanRecipients(Tail(list), account_number, return_recipient)

Recipient_get_by_account_number(list, account_number) ==
    ScanRecipients(list, account_number, NoneRecipient)

\* global_common.get_enum_from_value over global_common.Currency: Account()
\* maps every balance of the account and raises on the first unmapped code.
AllCurrenciesMapped(balances) ==
    \A i \in 1..Len(balances) : balances[i].currency \in Currencies

\* The loop of AccountBalance.get_by_currency_and_profile_type: first match.
RECURSIVE AccountBalance_get_by_currency(_, _)
AccountBalance_get_by_currency_AnyCurrency(balances, currency) ==
    IF balances = <<>> THEN NoneBalance ELSE Head(balances)

AccountBalance_get_by_currency(balances, currency) ==
    IF balances = <<>> THEN NoneBalance
    ELSE IF Head(balances).currency = currency THEN Head(balances)
    ELSE AccountBalance_get_by_currency(Tail(balances), currency)

\* What the upstream listed: profiles of the type, recipients with the number.
MatchingProfiles(list, profile_type) ==
    Cardinality({i \in 1..Len(list) : list[i].type = profile_type})

\* The balances of the first account listed that are in the currency.
MatchingBalances(accounts, currency) ==
    IF accounts = <<>> THEN 0
    ELSE Cardinality({i \in 1..Len(accounts[1].balances) :
                         accounts[1].balances[i].currency = currency})

MatchingRecipients(list, account_number) ==
    Cardinality({i \in 1..Len(list) : list[i].account_number = account_number})

\* Transfer.execute: "if from_currency == to_currency:".
NeedsBalanceCheck_Always(from_currency, to_currency) == TRUE

NeedsBalanceCheck(from_currency, to_currency) == from_currency = to_currency

\* Transfer.execute: "if not recipient.is_self_owned: raise ..." passes.
IsSelfOwned_Ignored(recipient) == TRUE

IsSelfOwned(recipient) == recipient.is_self_owned

\* The message of the InsufficientFundsException built in Transfer.execute.
InsufficientFundsMessage(receiving_amount, balance) ==
    [required |-> get_formatted_string_from_decimal(receiving_amount),
     balance |-> get_formatted_string_from_decimal(balance),
     short_of |-> get_formatted_string_from_decimal(receiving_amount - balance)]

(***************************************************************************)
(* Python values and their conversions                                     *)
(***************************************************************************)
\* None, an int n, a float with one decimal digit (tenths/10), and a Decimal
\* coef * 10^exp.  A str is a sequence of one-character strings.
PyNone == [t |-> "NoneType"]
PyInt(n) == [t |-> "int", n |-> n]
PyFloat(tenths) == [t |-> "float", tenths |-> tenths]
InvalidOperation == [t |-> "InvalidOperation"]     \* decimal.InvalidOperation

DigitChars == <<"0", "1", "2", "3", "4", "5", "6", "7", "8", "9">>
IsDigit(c) == \E d \in 1..10 : DigitChars[d] = c
DigitValue(c) == (CHOOSE d \in 1..10 : DigitChars[d] = c) - 1

RECURSIVE Pow10(_)
Pow10(n) == IF n = 0 THEN 1 ELSE 10 * Pow10(n - 1)

RECURSIVE Digits(_)
Digits(n) == IF n < 10 THEN <<DigitChars[n + 1]>>
             ELSE Append(Digits(n \div 10), DigitChars[(n % 10) + 1])

\* str(): "None", "12", "1.5" (the shortest repr of the float).
str(v) ==
    CASE v.t = "NoneType" -> <<"N", "o", "n", "e">>
      [] v.t = "int" -> Digits(v.n)
      [] v.t = "float" -> Digits(v.tenths \div 10) \o <<".">> \o Digits(v.tenths % 10)
      [] v.t = "str" -> v.s

RECURSIVE Coefficient(_, _)
Coefficient(s, acc) ==
    IF s = <<>> THEN acc
    ELSE IF Head(s) = "." THEN Coefficient(Tail(s), acc)
    ELSE Coefficient(Tail(s), 10 * acc + DigitValue(Head(s)))

DotPositions(s) == {i \in 1..Len(s) : s[i] = "."}

\* A Decimal that accepts any string, reading what is not a number as zero.
Decimal_Lenient(s) ==
    IF /\ \A i \in 1..Len(s) : IsDigit(s[i]) \/ s[i] = "."
       /\ Cardinality(DotPositions(s)) <= 1
       /\ \E i \in 1..Len(s) : IsDigit(s[i])
    THEN [t |-> "Decimal", coef |-> Coefficient(s, 0),
          exp |-> IF DotPositions(s) = {} THEN 0
                  ELSE (CHOOSE i \in DotPositions(s) : TRUE) - Len(s)]
    ELSE [t |-> "Decimal", coef |-> 0, exp |-> 0]

\* Decimal(str): digits with at most one point, else decimal.InvalidOperation.
Decimal(s) ==
    IF /\ \A i \in 1..Len(s) : IsDigit(s[i]) \/ s[i] = "."
       /\ Cardinality(DotPositions(s)) <= 1
       /\ \E i \in 1..Len(s) : IsDigit(s[i])
    THEN [t |-> "Decimal", coef |-> Coefficient(s, 0),
          exp |-> IF DotPositions(s) = {} THEN 0
                  ELSE (CHOOSE i \in DotPositions(s) : TRUE) - Len(s)]
    ELSE InvalidOperation

\* float(Decimal) of a Decimal with at most one decimal digit.
float(d) == PyFloat(d.coef * Pow10(d.exp + 1))

\* int(Decimal): truncation.
int(d) == d.coef \div Pow10(0 - d.exp)

\* str.replace(c, ""): drop every occurrence of the character.
replace(s, c) == SelectSeq(s, LAMBDA x : x # c)

(***************************************************************************)
(* Steps shared by the orchestration methods                               *)
(***************************************************************************)
\* One call to the brokerage or the transfer provider, with how it ended.
Issue(name, result) == calls' = Append(calls, [name |-> name, result |-> result])

\* communication.telegram.send_message: best effort, it returns to the caller
\* whether or not the message was delivered.
send_message(kind, delivered) ==
    notifications' = Append(notifications, [kind |-> kind, delivered |-> delivered])

Raise(error, message) ==
    /\ outcome' = [kind |-> "raised", error |-> error, message |-> message]
    /\ pc' = "done"

Return(value) ==
    /\ outcome' = [kind |-> "returned", value |-> value]
    /\ pc' = "done"

Init ==
    /\ op = "idle"
    /\ pc = "idle"
    /\ calls = <<>>
    /\ notifications = <<>>
    /\ outcome = NoOutcome
    /\ args = NoArgs
    /\ loc = NoLocals
    /\ order = NoneValue
    /\ tokens_sent = <<>>

\* The caller takes the result or the exception; the next call starts afresh.
Finish ==
    /\ op # "idle"
    /\ pc = "done"
    /\ op' = "idle"
    /\ pc' = "idle"
    /\ calls' = <<>>
    /\ notifications' = <<>>
    /\ outcome' = NoOutcome
    /\ args' = NoArgs
    /\ loc' = NoLocals
    /\ order' = NoneValue
    /\ tokens_sent' = <<>>

(***************************************************************************)
(* wise/models.py  Transfer.execute                                        *)
(***************************************************************************)
Transfer_execute ==
    /\ op = "idle"
    /\ \E receiving_amount \in Amounts, from_currency \in Currencies, to_currency \in Currencies,
          recipient_account_number \in {"123"}, profile_type \in ProfileTypes :
          args' = [receiving_amount |-> receiving_amount, from_currency |-> from_currency,
                    to_currency |-> to_currency,
                    recipient_account_number |-> recipient_account_number,
                    profile_type |-> profile_type]
    /\ loc' = [recipient |-> NoneRecipient, account_balance |-> NoneBalance,
                user_profile |-> NoneProfile, fund_status |-> "None",
                profile_matches |-> 0, recipient_matches |-> 0,
                accounts_listed |-> 0, balance_matches |-> 0,
                transfer |-> NoneValue, e |-> NoMessage]
    /\ op' = "transfer"
    /\ pc' = "recipient_profiles"
    /\ UNCHANGED <<calls, notifications, outcome, order, tokens_sent>>

\* Recipient.get_all_by_profile_type, first half: UserProfile.get_by_profile_type.
Transfer_RecipientProfiles ==
    /\ op = "transfer" /\ pc = "recipient_profiles"
    /\ \E result \in CallResults, reply \in ProfileReplies :
          /\ Issue("listProfiles", result)
          /\ LET found == UserProfile_get_by_profile_type(reply, args.profile_type)
                 seen == [loc EXCEPT !.profile_matches =
                                         MatchingProfiles(reply, args.profile_type)]
             IN  IF result = "transport" THEN Raise("TransportError", NoMessage) /\ UNCHANGED loc
                 ELSE IF result = "client" THEN Raise("ClientErrorException", UpstreamMessage) /\ UNCHANGED loc
                 ELSE IF found.raised
                      THEN Raise("MultipleUserProfilesWithSameTypeException", NoMessage) /\ loc' = seen
                 ELSE IF found.value = NoneProfile   \* user_profile.id on None
                      THEN Raise("AttributeError", NoMessage) /\ loc' = seen
                 ELSE /\ loc' = [seen EXCEPT !.user_profile = found.value]
                      /\ pc' = "recipients"
                      /\ UNCHANGED outcome
    /\ UNCHANGED <<op, notifications, args, order, tokens_sent>>

\* wise_models.Recipient.call, the scan for the account number, and the
\* ownership check of Transfer.execute.
Transfer_Recipients ==
    /\ op = "transfer" /\ pc = "recipients"
    /\ \E result \in CallResults, reply \in RecipientReplies :
          /\ Issue("listRecipients", result)
          /\ LET found == Recipient_get_by_account_number(reply, args.recipient_account_number)
                 seen == [loc EXCEPT !.recipient_matches =
                                         MatchingRecipients(reply, args.recipient_account_number)]
             IN  IF result = "transport" THEN Raise("TransportError", NoMessage) /\ UNCHANGED loc
                 ELSE IF result = "client" THEN Raise("ClientErrorException", UpstreamMessage) /\ UNCHANGED loc
                 ELSE IF found.raised
                      THEN Raise("MultipleRecipientsWithSameAccountNumberException", NoMessage) /\ loc' = seen
                 ELSE IF found.value = NoneRecipient   \* recipient.is_self_owned on None
                      THEN Raise("AttributeError", NoMessage) /\ loc' = seen
                 ELSE IF ~IsSelfOwned(found.value)
                      THEN /\ Raise("TransferringMoneyToNonSelfOwnedAccountsException", NoMessage)
                           /\ loc' = [seen EXCEPT !.recipient = found.value, !.user_profile = NoneProfile]
                 ELSE /\ loc' = [seen EXCEPT !.recipient = found.value, !.user_profile = NoneProfile]
                      /\ pc' = IF NeedsBalanceCheck(args.from_currency, args.to_currency)
                               THEN "balance_profiles" ELSE "profile"
                      /\ UNCHANGED outcome
    /\ UNCHANGED <<op, notifications, args, order, tokens_sent>>

\* try: AccountBalance.get_by_currency_and_profile_type, first half:
\* Account.get_by_profile_type resolves the profile again.
Transfer_BalanceProfiles ==
    /\ op = "transfer" /\ pc = "balance_profiles"
    /\ \E result \in CallResults, reply \in ProfileReplies :
          /\ Issue("listProfiles", result)
          /\ LET found == UserProfile_get_by_profile_type(reply, args.profile_type)
                 seen == [loc EXCEPT !.profile_matches =
                                         MatchingProfiles(reply, args.profile_type)]
             IN  IF result = "transport" THEN Raise("TransportError", NoMessage) /\ UNCHANGED loc
                 ELSE IF result = "client"
                      THEN /\ loc' = [loc EXCEPT !.e = UpstreamMessage]
                           /\ pc' = "except_client_error"
                           /\ UNCHANGED outcome
                 ELSE IF found.raised
                      THEN Raise("MultipleUserProfilesWithSameTypeException", NoMessage) /\ loc' = seen
                 ELSE IF found.value = NoneProfile   \* user_profile.id on None
                      THEN Raise("AttributeError", NoMessage) /\ loc' = seen
                 ELSE /\ loc' = [seen EXCEPT !.user_profile = found.value]
                      /\ pc' = "accounts"
                      /\ UNCHANGED outcome
    /\ UNCHANGED <<op, notifications, args, order, tokens_sent>>

\* wise_models.Account.call, Account(), [0].balances_list, the scan for the
\* currency and the comparison with receiving_amount.
Transfer_Accounts ==
    /\ op = "transfer" /\ pc = "accounts"
    /\ \E result \in CallResults, reply \in AccountReplies :
          /\ Issue("listAccounts", result)
          /\ LET seen == [loc EXCEPT !.accounts_listed = Len(reply),
                                     !.balance_matches =
                                         MatchingBalances(reply, args.from_currency)]
             IN
             IF result = "transport" THEN Raise("TransportError", NoMessage) /\ UNCHANGED loc
             ELSE IF result = "client"
                  THEN /\ loc' = [loc EXCEPT !.e = UpstreamMessage]
                       /\ pc' = "except_client_error"
                       /\ UNCHANGED outcome
             ELSE IF reply = <<>>        \* Account.get_by_profile_type(...)[0]
                  THEN Raise("IndexError", NoMessage) /\ loc' = seen
             ELSE IF ~AllCurrenciesMapped(reply[1].balances)
                  THEN Raise("EnumNotFoundException", NoMessage) /\ loc' = seen
             ELSE LET account_balance ==
                          AccountBalance_get_by_currency(reply[1].balances, args.from_currency)
                  IN  IF account_balance = NoneBalance
                      THEN Raise("BalanceForCurrencyNotFoundException", NoMessage) /\ loc' = seen
                      ELSE IF account_balance.balance < args.receiving_amount
                      THEN /\ loc' = [seen EXCEPT
                                  !.account_balance = account_balance,
                                  !.user_profile = NoneProfile,
                                  !.e = InsufficientFundsMessage(args.receiving_amount,
                                                                 account_balance.balance)]
                           /\ pc' = "except_insufficient_funds"
                           /\ UNCHANGED outcome
                      ELSE /\ loc' = [seen EXCEPT !.account_balance = account_balance,
                                                   !.user_profile = NoneProfile]
                           /\ pc' = "profile"
                           /\ UNCHANGED outcome
    /\ UNCHANGED <<op, notifications, args, order, tokens_sent>>

\* user_profile = UserProfile.get_by_profile_type(profile_type); a None
\* profile fails at user_profile.id, before the quote call is issued.
Transfer_Profile ==
    /\ op = "transfer" /\ pc = "profile"
    /\ \E result \in CallResults, reply \in ProfileReplies :
          /\ Issue("listProfiles", result)
          /\ LET found == UserProfile_get_by_profile_type(reply, args.profile_type)
                 seen == [loc EXCEPT !.profile_matches =
                                         MatchingProfiles(reply, args.profile_type)]
             IN  IF result = "transport" THEN Raise("TransportError", NoMessage) /\ UNCHANGED loc
                 ELSE IF result = "client"
                      THEN /\ loc' = [loc EXCEPT !.e = UpstreamMessage]
                           /\ pc' = "except_client_error"
                           /\ UNCHANGED outcome
                 ELSE IF found.raised
                      THEN Raise("MultipleUserProfilesWithSameTypeException", NoMessage) /\ loc' = seen
                 ELSE IF found.value = NoneProfile
                      THEN Raise("AttributeError", NoMessage) /\ loc' = seen
                 ELSE /\ loc' = [seen EXCEPT !.user_profile = found.value]
                      /\ pc' = "quote"
                      /\ UNCHANGED outcome
    /\ UNCHANGED <<op, notifications, args, order, tokens_sent>>

TransferCall_CatchesEverything(name, next) ==
    \E result \in CallResults :
        /\ Issue(name, result)
        /\ IF result # "ok"
           THEN /\ loc' = [loc EXCEPT !.e = UpstreamMessage]
                /\ pc' = "except_client_error"
                /\ UNCHANGED outcome
           ELSE /\ pc' = next
                /\ UNCHANGED <<loc, outcome>>

\* One of the three mutating calls: a reply moves on to `next`.
TransferCall(name, next) ==
    \E result \in CallResults :
        /\ Issue(name, result)
        /\ IF result = "transport" THEN Raise("TransportError", NoMessage) /\ UNCHANGED loc
           ELSE IF result = "client"
                THEN /\ loc' = [loc EXCEPT !.e = UpstreamMessage]
                     /\ pc' = "except_client_error"
                     /\ UNCHANGED outcome
           ELSE /\ pc' = next
                /\ UNCHANGED <<loc, outcome>>

Transfer_Quote ==
    /\ op = "transfer" /\ pc = "quote"
    /\ TransferCall("createQuote", "create_transfer")
    /\ UNCHANGED <<op, notifications, args, order, tokens_sent>>

Transfer_CreateTransfer ==
    /\ op = "transfer" /\ pc = "create_transfer"
    /\ TransferCall("createTransfer", "fund")
    /\ UNCHANGED <<op, notifications, args, order, tokens_sent>>

Transfer_init_AlwaysSuccessful(user_profile, recipient, args0, wise_fund) ==
    [type |-> "Transfer",
     profile_id |-> user_profile.id,
     from_currency |-> args0.from_currency,
     to_currency |-> args0.to_currency,
     recipient |-> recipient,
     is_successful |-> TRUE,
     error_message |-> wise_fund.errorMessage]

\* Transfer.__init__: the currencies are those of the quote, which the
\* caller passed as Currency members.
Transfer_init(user_profile, recipient, args0, wise_fund) ==
    [type |-> "Transfer",
     profile_id |-> user_profile.id,
     from_currency |-> args0.from_currency,
     to_currency |-> args0.to_currency,
     recipient |-> recipient,
     is_successful |-> (wise_fund.status = "COMPLETED"),
     error_message |-> wise_fund.errorMessage]

\* wise_models.Fund.call, Transfer(...), and the branch on is_successful.
Transfer_Fund ==
    /\ op = "transfer" /\ pc = "fund"
    /\ \E result \in CallResults, status \in FundStatuses, errorMessage \in ErrorMessages :
          /\ Issue("fundTransfer", result)
          /\ LET transfer == Transfer_init(loc.user_profile, loc.recipient, args,
                                           [status |-> status, errorMessage |-> errorMessage])
             IN  IF result = "transport" THEN Raise("TransportError", NoMessage) /\ UNCHANGED loc
                 ELSE IF result = "client"
                      THEN /\ loc' = [loc EXCEPT !.e = UpstreamMessage]
                           /\ pc' = "except_client_error"
                           /\ UNCHANGED outcome
                 ELSE IF transfer.is_successful
                      THEN /\ loc' = [loc EXCEPT !.transfer = transfer, !.fund_status = status]
                           /\ pc' = "notify_success"
                           /\ UNCHANGED outcome
                 ELSE \* raise ClientErrorException(transfer.error_message)
                      /\ loc' = [loc EXCEPT !.transfer = transfer, !.fund_status = status,
                                              !.e = [text |-> transfer.error_message]]
                      /\ pc' = "except_client_error"
                      /\ UNCHANGED outcome
    /\ UNCHANGED <<op, notifications, args, order, tokens_sent>>

\* The "Money transferred" message, then return transfer.
Transfer_NotifySuccess ==
    /\ op = "transfer" /\ pc = "notify_success"
    /\ \E delivered \in BOOLEAN : send_message("transfer_succeeded", delivered)
    /\ Return(loc.transfer)
    /\ UNCHANGED <<op, calls, args, loc, order, tokens_sent>>

\* except ClientErrorException: log, send the failure message, fall through
\* to the final return None.
Transfer_ExceptClientError ==
    /\ op = "transfer" /\ pc = "except_client_error"
    /\ \E delivered \in BOOLEAN : send_message("transfer_failed", delivered)
    /\ Return(NoneValue)
    /\ UNCHANGED <<op, calls, args, loc, order, tokens_sent>>

Transfer_ExceptInsufficientFunds_Silent ==
    /\ op = "transfer" /\ pc = "except_insufficient_funds"
    /\ Raise("InsufficientFundsException", loc.e)
    /\ UNCHANGED <<op, calls, notifications, args, loc, order, tokens_sent>>

\* except InsufficientFundsException: log, send the failure message, raise
\* InsufficientFundsException(str(e)).
Transfer_ExceptInsufficientFunds ==
    /\ op = "transfer" /\ pc = "except_insufficient_funds"
    /\ \E delivered \in BOOLEAN : send_message("transfer_failed", delivered)
    /\ Raise("InsufficientFundsException", loc.e)
    /\ UNCHANGED <<op, calls, args, loc, order, tokens_sent>>

(***************************************************************************)
(* ibkr/models.py  PlaceOrder, Instrument.get, PlaceOrderResponse          *)
(***************************************************************************)
OrderTypes == {"MKT", "LMT", "STP", "STOP_LIMIT", "MIDPRICE"}
OrderSides == {"BUY", "SELL"}
OrderStatuses == {"Submitted", "Inactive", "Cancelled", "PendingSubmit", "None"}
ExchangeDescriptions == {"NASDAQ", "NYSE"}
InstrumentTypes == {"STK", "OPT"}
NoneConid == 0

\* What a caller passes as price: None, an int or a float.
PriceArguments ==
    {PyNone, PyInt(0), PyInt(MaxPriceInt), PyFloat(5), PyFloat(MaxPriceTenths)}

\* The class-level default custom_order_id = str(uuid.uuid4()).
ClassDefaultOrderId == "uuid4-at-class-definition"

PlaceOrder_init_TokenPerRequest(symbol, orderType, side, quantity, price, account_id) ==
    LET p == Decimal(str(price))
    IN  IF orderType # "MKT" /\ p = InvalidOperation THEN InvalidOperation
        ELSE [type |-> "PlaceOrder", symbol |-> symbol, orderType |-> orderType, side |-> side,
              quantity |-> Decimal(str(quantity)), account_id |-> account_id,
              price |-> IF orderType # "MKT" THEN p ELSE PyNone,
              custom_order_id |-> IF side = "BUY" THEN "uuid4-a" ELSE "uuid4-b",
              outsideRTH |-> IF orderType # "MKT" THEN TRUE ELSE FALSE,
              tif |-> "GTC"]

PlaceOrder_init_PriceAlways(symbol, orderType, side, quantity, price, account_id) ==
    LET p == Decimal(str(price))
    IN  IF p = InvalidOperation THEN InvalidOperation
        ELSE [type |-> "PlaceOrder", symbol |-> symbol, orderType |-> orderType, side |-> side,
              quantity |-> Decimal(str(quantity)), account_id |-> account_id,
              price |-> p, custom_order_id |-> ClassDefaultOrderId,
              outsideRTH |-> TRUE, tif |-> "GTC"]

\* PlaceOrder.__init__; price, custom_order_id, outsideRTH and tif start from
\* the class attributes None, the shared uuid, True and GOOD_TILL_CANCEL.
PlaceOrder_init(symbol, orderType, side, quantity, price, account_id) ==
    LET p == Decimal(str(price))
    IN  IF orderType # "MKT" /\ p = InvalidOperation THEN InvalidOperation
        ELSE [type |-> "PlaceOrder", symbol |-> symbol, orderType |-> orderType, side |-> side,
              quantity |-> Decimal(str(quantity)), account_id |-> account_id,
              price |-> IF orderType # "MKT" THEN p ELSE PyNone,
              custom_order_id |-> ClassDefaultOrderId,
              outsideRTH |-> IF orderType # "MKT" THEN TRUE ELSE FALSE,
              tif |-> "GTC"]

\* StockSearchResults.call(symbol): no list at all, or a list of results.
SearchReplies ==
    {[none |-> TRUE, list |-> <<>>]} \cup
    {[none |-> FALSE, list |-> [i \in 1..Len(ds) |-> [description |-> ds[i], conid |-> i]]] :
        ds \in SeqsUpTo(ExchangeDescriptions, MaxSearchResults)}

\* MarketDataSnapshot.last_price: absent, or text with a C / H marker.
LastPrices == {PyNone, [t |-> "str", s |-> <<"C", "1", ".", "5">>], [t |-> "str", s |-> <<"2">>]}

\* The loop of Instrument.get: the first result listed on the exchange.
RECURSIVE FirstOnExchange(_, _)
FirstOnExchange(list, exchange) ==
    IF list = <<>> THEN NoneConid
    ELSE IF Head(list).description = exchange THEN Head(list).conid
    ELSE FirstOnExchange(Tail(list), exchange)

\* MarketDataSnapshot.bid_price, one of the optional numeric fields: absent
\* or text.
BidPrices == {PyNone, [t |-> "str", s |-> <<"1", ".", "4">>]}

\* An attribute __init__ never assigned.
Unset == [t |-> "unset"]

\* Instrument.__init__: the result is the Instrument or the exception it
\* raises. bid_price stands for the fields assigned under "if x is not None".
Instrument_init(contract, last_price, bid_price) ==
    IF contract.con_id = NoneConid THEN [type |-> "StockDataNotAvailableException"]
    ELSE IF last_price = PyNone THEN [type |-> "AttributeError"]
    ELSE [type |-> "Instrument", contract_id |-> contract.con_id,
          instrument_type |-> contract.instrument_type,
          last_price |-> Decimal(replace(replace(last_price.s, "C"), "H")),
          bid_price |-> IF bid_price # PyNone THEN Decimal(str(bid_price)) ELSE Unset]

\* The dataclass __eq__ of Instrument: the fields of both objects are read
\* and compared; reading a field that was never assigned raises.
Instrument_eq(a, b) ==
    IF a.bid_price = Unset \/ b.bid_price = Unset THEN [t |-> "AttributeError"]
    ELSE [t |-> "bool", v |-> (a = b)]

\* Instrument.get: "if stock_search_results.stock_search_results_list is None".
NoResults_Never(reply) == FALSE

NoResults(reply) == reply.none

\* The callers of Instrument.get and the arguments each passes.
InstrumentCallers == {"place_order", "instrument_get", "orders_value"}
RequestedExchange == IF op = "place_order" THEN "NASDAQ" ELSE args.exchange
RequestedType == IF op = "instrument_get" THEN args.instrument_type ELSE "STK"
AfterInstrument ==
    CASE op = "place_order" -> "place"
      [] op = "instrument_get" -> "got"
      [] op = "orders_value" -> "add_value"

\* What the brokerage answers: anything per call, or, for a caller that
\* looks at an upstream that does not change, the same answer every time.
SearchAnswers == IF op = "instrument_get" THEN {args.upstream.search} ELSE SearchReplies
TypeAnswers == IF op = "instrument_get" THEN {args.upstream.instrument_type} ELSE InstrumentTypes
LastPriceAnswers == IF op = "instrument_get" THEN {args.upstream.last_price} ELSE LastPrices
BidPriceAnswers == IF op = "instrument_get" THEN {args.upstream.bid_price} ELSE BidPrices

PlaceOrderResponse_init_FlagOnly(order_response) ==
    [type |-> "PlaceOrderResponse",
     is_order_placed |-> order_response.is_successful]

\* PlaceOrderResponse.__init__
PlaceOrderResponse_init(order_response) ==
    [type |-> "PlaceOrderResponse",
     is_order_placed |-> (order_response.is_successful
                            /\ order_response.order_status = "Submitted")]

\* A caller constructs a PlaceOrder; a failing constructor leaves no object.
PlaceOrder_new ==
    /\ op = "idle"
    /\ \E orderType \in OrderTypes, side \in OrderSides, quantity \in 1..MaxQuantity,
          price \in PriceArguments :
          LET o == PlaceOrder_init("AAPL", orderType, side, PyInt(quantity), price, "U1")
          IN  /\ args' = [symbol |-> "AAPL", orderType |-> orderType, side |-> side,
                          quantity |-> quantity, price |-> price, account_id |-> "U1"]
              /\ IF o = InvalidOperation
                 THEN Raise("InvalidOperation", NoMessage) /\ order' = NoneValue
                 ELSE /\ order' = o
                      /\ pc' = "constructed"
                      /\ UNCHANGED outcome
    /\ op' = "place_order"
    /\ loc' = [contract_id |-> NoneConid, contract |-> NoneValue, stock |-> NoneValue,
               price |-> PyNone, request |-> NoneValue, reply |-> NoneValue,
               order_response |-> NoneValue, reused |-> FALSE, no_results |-> FALSE]
    /\ UNCHANGED <<calls, notifications, tokens_sent>>

PlaceOrder_execute_NotifyMustSucceed ==
    /\ op = "place_order" /\ pc = "constructed"
    /\ \E delivered \in BOOLEAN :
          /\ send_message("placing_order", delivered)
          /\ IF delivered THEN pc' = "search" /\ UNCHANGED outcome
             ELSE Raise("TelegramError", NoMessage)
    /\ UNCHANGED <<op, calls, args, loc, order, tokens_sent>>

\* PlaceOrder.execute, the "Placing a new order" message.
PlaceOrder_execute ==
    /\ op = "place_order" /\ pc = "constructed"
    /\ \E delivered \in BOOLEAN : send_message("placing_order", delivered)
    /\ pc' = "search"
    /\ UNCHANGED <<op, calls, outcome, args, loc, order, tokens_sent>>

\* Instrument.get: StockSearchResults.call and the scan for the exchange.
Instrument_Search ==
    /\ op \in InstrumentCallers /\ pc = "search"
    /\ \E result \in CallResults, reply \in SearchAnswers :
          /\ Issue("searchSymbol", result)
          /\ IF result = "transport" THEN Raise("TransportError", NoMessage) /\ UNCHANGED loc
             ELSE IF result = "client"
                  THEN Raise("ClientErrorException", UpstreamMessage) /\ UNCHANGED loc
             ELSE IF NoResults(reply)
                  THEN /\ Raise("StockNotFoundException", NoMessage)
                       /\ loc' = [loc EXCEPT !.no_results = reply.none]
             ELSE /\ loc' = [loc EXCEPT !.no_results = reply.none,
                                        !.contract_id =
                                            FirstOnExchange(reply.list, RequestedExchange)]
                  /\ pc' = "contract"
                  /\ UNCHANGED outcome
    /\ UNCHANGED <<op, notifications, args, order, tokens_sent>>

\* Instrument.get: Contract.call(contract_id); the contract is the one asked for.
Instrument_Contract ==
    /\ op \in InstrumentCallers /\ pc = "contract"
    /\ \E result \in CallResults, instrument_type \in TypeAnswers :
          /\ Issue("getContract", result)
          /\ IF result = "transport" THEN Raise("TransportError", NoMessage) /\ UNCHANGED loc
             ELSE IF result = "client"
                  THEN Raise("ClientErrorException", UpstreamMessage) /\ UNCHANGED loc
             ELSE /\ loc' = [loc EXCEPT !.contract = [con_id |-> loc.contract_id,
                                                       instrument_type |-> instrument_type]]
                  /\ pc' = "snapshot"
                  /\ UNCHANGED outcome
    /\ UNCHANGED <<op, notifications, args, order, tokens_sent>>

\* Instrument.get: MarketDataSnapshot.call, the instrument type check and
\* Instrument(...).
Instrument_Snapshot ==
    /\ op \in InstrumentCallers /\ pc = "snapshot"
    /\ \E result \in CallResults, last_price \in LastPriceAnswers, bid_price \in BidPriceAnswers :
          /\ Issue("getMarketSnapshot", result)
          /\ LET stock == Instrument_init(loc.contract, last_price, bid_price)
             IN  IF result = "transport" THEN Raise("TransportError", NoMessage) /\ UNCHANGED loc
                 ELSE IF result = "client"
                      THEN Raise("ClientErrorException", UpstreamMessage) /\ UNCHANGED loc
                 ELSE IF loc.contract.instrument_type # RequestedType
                      THEN Raise("StockNotFoundException", NoMessage) /\ UNCHANGED loc
                 ELSE IF stock.type # "Instrument"
                      THEN Raise(stock.type, NoMessage) /\ UNCHANGED loc
                 ELSE /\ loc' = [loc EXCEPT !.stock = stock]
                      /\ pc' = AfterInstrument
                      /\ UNCHANGED outcome
    /\ UNCHANGED <<op, notifications, args, order, tokens_sent>>

\* A caller calls Instrument.get while the upstream holds one set of answers.
Instrument_get ==
    /\ op = "idle"
    /\ \E exchange \in ExchangeDescriptions, search \in SearchReplies,
          instrument_type \in InstrumentTypes, last_price \in LastPrices,
          bid_price \in BidPrices :
          args' = [symbol |-> "AAPL", instrument_type |-> "STK", exchange |-> exchange,
                   upstream |-> [search |-> search, instrument_type |-> instrument_type,
                                 last_price |-> last_price, bid_price |-> bid_price]]
    /\ op' = "instrument_get"
    /\ pc' = "search"
    /\ loc' = [contract_id |-> NoneConid, contract |-> NoneValue, stock |-> NoneValue,
               no_results |-> FALSE, first |-> NoneValue, first_calls |-> 0]
    /\ UNCHANGED <<calls, notifications, outcome, order, tokens_sent>>

\* The caller keeps the Instrument and calls Instrument.get again with the
\* same arguments.
Instrument_get_again ==
    /\ op = "instrument_get" /\ pc = "got"
    /\ loc.first = NoneValue
    /\ loc' = [contract_id |-> NoneConid, contract |-> NoneValue, stock |-> NoneValue,
               no_results |-> FALSE, first |-> loc.stock, first_calls |-> Len(calls)]
    /\ pc' = "search"
    /\ UNCHANGED <<op, calls, notifications, outcome, args, order, tokens_sent>>

\* The caller compares the two Instruments with ==.
Instrument_compare ==
    /\ op = "instrument_get" /\ pc = "got"
    /\ loc.first # NoneValue
    /\ LET equal == Instrument_eq(loc.first, loc.stock)
       IN  IF equal.t = "AttributeError" THEN Raise("AttributeError", NoMessage)
           ELSE Return(equal)
    /\ UNCHANGED <<op, calls, notifications, args, loc, order, tokens_sent>>

InstrumentNext ==
    \/ Instrument_get
    \/ Instrument_get_again
    \/ Instrument_compare

\* PlaceOrder.execute: ibkr_models.PlaceOrder.call and PlaceOrderResponse(...).
PlaceOrder_Place ==
    /\ op = "place_order" /\ pc = "place"
    /\ \E result \in CallResults, is_successful \in BOOLEAN, order_status \in OrderStatuses :
          LET price == IF order.price # PyNone THEN float(order.price) ELSE PyNone
              request == [account_id |-> order.account_id, conid |-> loc.stock.contract_id,
                          orderType |-> order.orderType, outsideRTH |-> order.outsideRTH,
                          side |-> order.side, tif |-> order.tif,
                          quantity |-> int(order.quantity), cOID |-> order.custom_order_id,
                          price |-> price]
              reply == [is_successful |-> is_successful, order_status |-> order_status]
          IN  /\ Issue("placeOrder", result)
              /\ tokens_sent' = Append(tokens_sent, [cOID |-> request.cOID,
                                                      reused |-> loc.reused])
              /\ IF result = "transport"
                 THEN /\ Raise("TransportError", NoMessage)
                      /\ loc' = [loc EXCEPT !.price = price, !.request = request]
                 ELSE IF result = "client"
                 THEN /\ Raise("ClientErrorException", UpstreamMessage)
                      /\ loc' = [loc EXCEPT !.price = price, !.request = request]
                 ELSE /\ loc' = [loc EXCEPT !.price = price, !.request = request,
                                            !.reply = reply,
                                            !.order_response = PlaceOrderResponse_init(reply)]
                      /\ pc' = "notify_outcome"
                      /\ UNCHANGED outcome
    /\ UNCHANGED <<op, notifications, args, order>>

\* PlaceOrder.execute: "if order_response.is_order_placed: ... else: ...".
OutcomeMessage_Inverted(order_response) ==
    IF order_response.is_order_placed THEN "order_not_placed" ELSE "order_placed"

OutcomeMessage(order_response) ==
    IF order_response.is_order_placed THEN "order_placed" ELSE "order_not_placed"

\* PlaceOrder.execute: the success or the failure message, return order_response.
PlaceOrder_NotifyOutcome_RaiseIfNotPlaced ==
    /\ op = "place_order" /\ pc = "notify_outcome"
    /\ \E delivered \in BOOLEAN :
          send_message(IF loc.order_response.is_order_placed
                       THEN "order_placed" ELSE "order_not_placed", delivered)
    /\ IF loc.order_response.is_order_placed THEN Return(loc.order_response)
       ELSE Raise("OrderNotPlacedException", NoMessage)
    /\ UNCHANGED <<op, calls, args, loc, order, tokens_sent>>

PlaceOrder_NotifyOutcome ==
    /\ op = "place_order" /\ pc = "notify_outcome"
    /\ \E delivered \in BOOLEAN :
          send_message(OutcomeMessage(loc.order_response), delivered)
    /\ Return(loc.order_response)
    /\ UNCHANGED <<op, calls, args, loc, order, tokens_sent>>

\* The caller calls execute() again on the request object it already used.
PlaceOrder_reuse ==
    /\ op = "place_order" /\ pc = "done"
    /\ order # NoneValue
    /\ Len(tokens_sent) < MaxExecutions
    /\ pc' = "constructed"
    /\ calls' = <<>>
    /\ notifications' = <<>>
    /\ outcome' = NoOutcome
    /\ loc' = [contract_id |-> NoneConid, contract |-> NoneValue, stock |-> NoneValue,
               price |-> PyNone, request |-> NoneValue, reply |-> NoneValue,
               order_response |-> NoneValue, reused |-> TRUE, no_results |-> FALSE]
    /\ UNCHANGED <<op, args, order, tokens_sent>>

\* The caller drops the request object and goes on to construct another one;
\* what the brokerage received stays received.
PlaceOrder_drop ==
    /\ op = "place_order" /\ pc = "done"
    /\ Len(tokens_sent) < MaxExecutions
    /\ op' = "idle"
    /\ pc' = "idle"
    /\ calls' = <<>>
    /\ notifications' = <<>>
    /\ outcome' = NoOutcome
    /\ args' = NoArgs
    /\ loc' = NoLocals
    /\ order' = NoneValue
    /\ UNCHANGED tokens_sent

PlaceOrderNext ==
    \/ PlaceOrder_new
    \/ PlaceOrder_execute
    \/ Instrument_Search
    \/ Instrument_Contract
    \/ Instrument_Snapshot
    \/ PlaceOrder_Place
    \/ PlaceOrder_NotifyOutcome

(***************************************************************************)
(* ibkr/models.py  CancelOrder, CancelOrderResponse                        *)
(***************************************************************************)
OrderIds == {"101", "102"}

\* CancelOrderResponse.__init__
CancelOrderResponse_init(cancel_order_response) ==
    [type |-> "CancelOrderResponse",
     order_id |-> cancel_order_response.order_id,
     is_order_cancelled |-> cancel_order_response.is_successful]

\* CancelOrder.__init__ over an UnfilledOrder snapshot.
CancelOrder_new ==
    /\ op = "idle"
    /\ \E order_id \in OrderIds :
          LET unfilled_order == [account_id |-> "U1", order_id |-> order_id, symbol |-> "AAPL"]
          IN  /\ args' = [unfilled_order |-> unfilled_order]
              /\ loc' = [account_id |-> unfilled_order.account_id,
                         order_id |-> unfilled_order.order_id,
                         request |-> NoneValue, cancel_order_response |-> NoneValue]
    /\ op' = "cancel_order"
    /\ pc' = "constructed"
    /\ UNCHANGED <<calls, notifications, outcome, order, tokens_sent>>

\* CancelOrder.execute, the "Cancelling an unfilled order" message.
CancelOrder_execute ==
    /\ op = "cancel_order" /\ pc = "constructed"
    /\ \E delivered \in BOOLEAN : send_message("cancelling_order", delivered)
    /\ pc' = "cancel"
    /\ UNCHANGED <<op, calls, outcome, args, loc, order, tokens_sent>>

\* ibkr_models.CancelOrder.call, CancelOrderResponse(...); a cancelled order
\* returns at once.
CancelOrder_Cancel ==
    /\ op = "cancel_order" /\ pc = "cancel"
    /\ \E result \in CallResults, is_successful \in BOOLEAN :
          LET request == [account_id |-> loc.account_id, order_id |-> loc.order_id]
              response == CancelOrderResponse_init([order_id |-> loc.order_id,
                                                    is_successful |-> is_successful])
          IN  /\ Issue("cancelOrder", result)
              /\ IF result = "transport"
                 THEN /\ Raise("TransportError", NoMessage)
                      /\ loc' = [loc EXCEPT !.request = request]
                 ELSE IF result = "client"
                 THEN /\ Raise("ClientErrorException", UpstreamMessage)
                      /\ loc' = [loc EXCEPT !.request = request]
                 ELSE /\ loc' = [loc EXCEPT !.request = request,
                                            !.cancel_order_response = response]
                      /\ IF response.is_order_cancelled
                         THEN Return(response)
                         ELSE pc' = "notify_not_cancelled" /\ UNCHANGED outcome
    /\ UNCHANGED <<op, notifications, args, order, tokens_sent>>

\* CancelOrder.execute: the failure message, return cancel_order_response.
CancelOrder_NotifyNotCancelled_Silent ==
    /\ op = "cancel_order" /\ pc = "notify_not_cancelled"
    /\ Return(loc.cancel_order_response)
    /\ UNCHANGED <<op, calls, notifications, args, loc, order, tokens_sent>>

CancelOrder_NotifyNotCancelled ==
    /\ op = "cancel_order" /\ pc = "notify_not_cancelled"
    /\ \E delivered \in BOOLEAN : send_message("order_not_cancelled", delivered)
    /\ Return(loc.cancel_order_response)
    /\ UNCHANGED <<op, calls, args, loc, order, tokens_sent>>

CancelOrderNext ==
    \/ CancelOrder_new
    \/ CancelOrder_execute
    \/ CancelOrder_Cancel
    \/ CancelOrder_NotifyNotCancelled

(***************************************************************************)
(* ibkr/models.py  UnfilledOrder                                           *)
(***************************************************************************)
LiveOrderStatuses == {"Submitted", "Inactive", "Cancelled"}
LiveOrderTypes == {"Limit", "Market", "Stop"}
LiveOrderPrices == {PyNone, PyFloat(15)}
RemainingQuantities == {PyFloat(20)}
\* ibkr.models.Currency has USD, NZD and SGD; "EUR" has no member in it.
IbkrCurrencies == {"USD", "NZD", "SGD"}
LiveOrderCurrencies == {"USD", "EUR"}

\* ibkr_models.LiveOrders.call(): order ids are positions in the list.
LiveOrderFields ==
    [status : LiveOrderStatuses, orderType : LiveOrderTypes, price : LiveOrderPrices,
     remainingQuantity : RemainingQuantities, cashCcy : LiveOrderCurrencies]

LiveOrderReplies ==
    {[i \in 1..Len(fs) |->
        [orderId |-> i, status |-> fs[i].status, orderType |-> fs[i].orderType,
         price |-> fs[i].price, remainingQuantity |-> fs[i].remainingQuantity,
         cashCcy |-> fs[i].cashCcy]] : fs \in SeqsUpTo(LiveOrderFields, MaxLiveOrders)}

\* UnfilledOrder.__init__: the UnfilledOrder or the exception it raises.
\* cashCcy stands for the fields mapped with get_enum_from_value; an
\* orderType other than "Limit" and "Market" leaves order_type unassigned
\* and "if self.order_type is not OrderType.MARKET" then reads it.
UnfilledOrder_init_PriceAlways(live_order) ==
    IF live_order.cashCcy \notin IbkrCurrencies THEN [type |-> "EnumNotFoundException"]
    ELSE IF Decimal(str(live_order.remainingQuantity)) = InvalidOperation
    THEN [type |-> "InvalidOperation"]
    ELSE IF live_order.orderType \notin {"Limit", "Market"} THEN [type |-> "AttributeError"]
    ELSE IF Decimal(str(live_order.price)) = InvalidOperation
    THEN [type |-> "InvalidOperation"]
    ELSE [type |-> "UnfilledOrder",
          order_id |-> live_order.orderId,
          currency |-> live_order.cashCcy,
          unfilled_quantity |-> Decimal(str(live_order.remainingQuantity)),
          status |-> live_order.status,
          order_type |-> IF live_order.orderType = "Limit" THEN "LMT" ELSE "MKT",
          price |-> Decimal(str(live_order.price))]

UnfilledOrder_init(live_order) ==
    IF live_order.cashCcy \notin IbkrCurrencies THEN [type |-> "EnumNotFoundException"]
    ELSE IF Decimal(str(live_order.remainingQuantity)) = InvalidOperation
    THEN [type |-> "InvalidOperation"]
    ELSE IF live_order.orderType \notin {"Limit", "Market"} THEN [type |-> "AttributeError"]
    ELSE IF live_order.orderType # "Market" /\ Decimal(str(live_order.price)) = InvalidOperation
    THEN [type |-> "InvalidOperation"]
    ELSE [type |-> "UnfilledOrder",
          order_id |-> live_order.orderId,
          currency |-> live_order.cashCcy,
          unfilled_quantity |-> Decimal(str(live_order.remainingQuantity)),
          status |-> live_order.status,
          order_type |-> IF live_order.orderType = "Limit" THEN "LMT" ELSE "MKT",
          price |-> IF live_order.orderType # "Market"
                    THEN Decimal(str(live_order.price)) ELSE PyNone]

\* The loop of UnfilledOrder.get: the list built so far, or the exception of
\* the first constructor that raises.
RECURSIVE UnfilledOrder_get_loop(_, _)
UnfilledOrder_get_loop(live_orders_list, unfilled_orders_list) ==
    IF live_orders_list = <<>> THEN [type |-> "list", list |-> unfilled_orders_list]
    ELSE IF Head(live_orders_list).status \in {"Inactive", "Cancelled"}
    THEN UnfilledOrder_get_loop(Tail(live_orders_list), unfilled_orders_list)
    ELSE LET unfilled_order == UnfilledOrder_init(Head(live_orders_list))
         IN  IF unfilled_order.type # "UnfilledOrder" THEN unfilled_order
             ELSE UnfilledOrder_get_loop(Tail(live_orders_list),
                                         Append(unfilled_orders_list, unfilled_order))

\* UnfilledOrder.get: the live orders that pass the status test.
ActiveLiveOrders(live_orders) ==
    SelectSeq(live_orders, LAMBDA o : o.status \notin {"Inactive", "Cancelled"})

\* Live orders in a currency of the enumeration and with a price.
WellFormed(live_orders) ==
    \A i \in 1..Len(live_orders) :
        live_orders[i].cashCcy \in IbkrCurrencies /\ live_orders[i].price # PyNone

\* The orderType of each live order that passes the status test.
ActiveTypes(live_orders) ==
    [i \in 1..Len(ActiveLiveOrders(live_orders)) |-> ActiveLiveOrders(live_orders)[i].orderType]

\* UnfilledOrder.get, called by itself.
UnfilledOrder_get ==
    /\ op = "idle"
    /\ \E result \in CallResults, live_orders \in LiveOrderReplies :
          LET got == UnfilledOrder_get_loop(live_orders, <<>>)
          IN  /\ calls' = <<[name |-> "getLiveOrders", result |-> result]>>
              /\ IF result = "transport"
                 THEN Raise("TransportError", NoMessage) /\ loc' = [live_orders |-> <<>>]
                 ELSE IF result = "client"
                 THEN Raise("ClientErrorException", UpstreamMessage) /\ loc' = [live_orders |-> <<>>]
                 ELSE /\ loc' = [live_orders |-> live_orders]
                      /\ IF got.type # "list" THEN Raise(got.type, NoMessage)
                         ELSE Return(got)
    /\ op' = "unfilled_orders"
    /\ args' = NoArgs
    /\ UNCHANGED <<notifications, order, tokens_sent>>

\* Decimal * Decimal and Decimal + Decimal: exact, the exponent of a product
\* is the sum of the exponents, that of a sum the smaller exponent.
Decimal_mul(a, b) == [t |-> "Decimal", coef |-> a.coef * b.coef, exp |-> a.exp + b.exp]

Decimal_add_Unaligned(a, b) ==
    [t |-> "Decimal", coef |-> a.coef + b.coef, exp |-> IF a.exp < b.exp THEN a.exp ELSE b.exp]

Decimal_add(a, b) ==
    LET exp == IF a.exp < b.exp THEN a.exp ELSE b.exp
    IN  [t |-> "Decimal",
         coef |-> a.coef * Pow10(a.exp - exp) + b.coef * Pow10(b.exp - exp),
         exp |-> exp]

\* UnfilledOrder.get_all_unfilled_orders_value: value = Decimal("0").
UnfilledOrder_get_all_unfilled_orders_value ==
    /\ op = "idle"
    /\ \E exchange \in ExchangeDescriptions : args' = [exchange |-> exchange]
    /\ op' = "orders_value"
    /\ pc' = "live_orders"
    /\ loc' = [value |-> Decimal(<<"0">>), unfilled_orders |-> <<>>, index |-> 1,
               lookups |-> <<>>, contract_id |-> NoneConid, contract |-> NoneValue,
               stock |-> NoneValue, no_results |-> FALSE,
               active_types |-> <<>>, well_formed |-> TRUE]
    /\ UNCHANGED <<calls, notifications, outcome, order, tokens_sent>>

\* get_all_unfilled_orders_value: "for unfilled_order in UnfilledOrder.get()".
OrdersValue_LiveOrders ==
    /\ op = "orders_value" /\ pc = "live_orders"
    /\ \E result \in CallResults, live_orders \in LiveOrderReplies :
          LET got == UnfilledOrder_get_loop(live_orders, <<>>)
          IN  /\ Issue("getLiveOrders", result)
              /\ IF result = "transport"
                 THEN Raise("TransportError", NoMessage) /\ UNCHANGED loc
                 ELSE IF result = "client"
                 THEN Raise("ClientErrorException", UpstreamMessage) /\ UNCHANGED loc
                 ELSE IF got.type # "list"
                 THEN /\ Raise(got.type, NoMessage)
                      /\ loc' = [loc EXCEPT !.active_types = ActiveTypes(live_orders),
                                            !.well_formed = WellFormed(live_orders)]
                 ELSE /\ loc' = [loc EXCEPT !.unfilled_orders = got.list,
                                            !.active_types = ActiveTypes(live_orders),
                                            !.well_formed = WellFormed(live_orders)]
                      /\ pc' = "next_order"
                      /\ UNCHANGED outcome
    /\ UNCHANGED <<op, notifications, args, order, tokens_sent>>

\* get_all_unfilled_orders_value: one turn of the loop up to the Instrument
\* lookup of a MARKET order, or "return value" after the last order.
OrdersValue_NextOrder ==
    /\ op = "orders_value" /\ pc = "next_order"
    /\ IF loc.index > Len(loc.unfilled_orders)
       THEN Return([type |-> "Decimal", value |-> loc.value]) /\ UNCHANGED loc
       ELSE LET unfilled_order == loc.unfilled_orders[loc.index]
            IN  IF unfilled_order.order_type = "LMT"
                THEN /\ loc' = [loc EXCEPT
                                  !.value = Decimal_add(loc.value,
                                                Decimal_mul(unfilled_order.price,
                                                            unfilled_order.unfilled_quantity)),
                                  !.index = loc.index + 1]
                     /\ UNCHANGED <<pc, outcome>>
                ELSE IF unfilled_order.order_type = "MKT"
                THEN /\ loc' = [loc EXCEPT !.contract_id = NoneConid, !.contract = NoneValue,
                                           !.stock = NoneValue]
                     /\ pc' = "search"
                     /\ UNCHANGED outcome
                ELSE \* value_of_order is None: value + None
                     Raise("TypeError", NoMessage) /\ UNCHANGED loc
    /\ UNCHANGED <<op, calls, notifications, args, order, tokens_sent>>

\* get_all_unfilled_orders_value: the MARKET branch after Instrument.get and
\* "value = value + value_of_order".
OrdersValue_AddMarket ==
    /\ op = "orders_value" /\ pc = "add_value"
    /\ LET unfilled_order == loc.unfilled_orders[loc.index]
       IN  loc' = [loc EXCEPT
                     !.value = Decimal_add(loc.value,
                                   Decimal_mul(loc.stock.last_price,
                                               unfilled_order.unfilled_quantity)),
                     !.lookups = Append(loc.lookups, loc.stock.last_price),
                     !.index = loc.index + 1]
    /\ pc' = "next_order"
    /\ UNCHANGED <<op, calls, notifications, outcome, args, order, tokens_sent>>

UnfilledOrderNext ==
    \/ UnfilledOrder_get
    \/ UnfilledOrder_get_all_unfilled_orders_value
    \/ OrdersValue_LiveOrders
    \/ OrdersValue_NextOrder
    \/ OrdersValue_AddMarket

TransferNext ==
    \/ Transfer_execute
    \/ Transfer_RecipientProfiles
    \/ Transfer_Recipients
    \/ Transfer_BalanceProfiles
    \/ Transfer_Accounts
    \/ Transfer_Profile
    \/ Transfer_Quote
    \/ Transfer_CreateTransfer
    \/ Transfer_Fund
    \/ Transfer_NotifySuccess
    \/ Transfer_ExceptClientError
    \/ Transfer_ExceptInsufficientFunds

Next ==
    \/ TransferNext
    \/ PlaceOrderNext
    \/ CancelOrderNext
    \/ InstrumentNext
    \/ UnfilledOrderNext
    \/ Finish

Spec == Init /\ [][Next]_vars

\* Several PlaceOrder requests and repeated execute() calls, one after another.
RepeatedOrdersNext ==
    \/ PlaceOrderNext
    \/ PlaceOrder_reuse
    \/ PlaceOrder_drop

SpecRepeatedOrders == Init /\ [][RepeatedOrdersNext]_vars

(***************************************************************************)
(* Properties                                                              *)
(***************************************************************************)
Issued(name) == \E i \in 1..Len(calls) : calls[i].name = name
NoMoneyMoved == ~Issued("createQuote") /\ ~Issued("createTransfer") /\ ~Issued("fundTransfer")
Sent(kind) == Cardinality({i \in 1..Len(notifications) : notifications[i].kind = kind})

\* The balance pre-check of a same-currency transfer found too little money.
BalanceTooLow ==
    /\ op = "transfer"
    /\ loc.account_balance # NoneBalance
    /\ loc.account_balance.balance < args.receiving_amount

Shortfall == args.receiving_amount - loc.account_balance.balance

\* C1 as stated: a same-currency transfer to a self-owned recipient whose
\* balance is below the requested amount fails with InsufficientFunds, the
\* shortfall it carries is exactly requested amount - balance, and no quote,
\* create-transfer or fund call is issued.
C1_ExactShortfall ==
    BalanceTooLow =>
        /\ NoMoneyMoved
        /\ outcome.kind # "returned"
        /\ pc = "done" =>
              /\ outcome.kind = "raised"
              /\ outcome.error = "InsufficientFundsException"
              /\ 2 * outcome.message.short_of = Shortfall

\* C1 amended: the shortfall in the message is requested amount - balance
\* rounded to whole cents, halves to the even cent; nothing else changes.
C1_RoundedShortfall ==
    BalanceTooLow =>
        /\ NoMoneyMoved
        /\ outcome.kind # "returned"
        /\ pc = "done" =>
              /\ outcome.kind = "raised"
              /\ outcome.error = "InsufficientFundsException"
              /\ 2 * outcome.message.short_of - Shortfall \in {-1, 0, 1}
              /\ 2 * outcome.message.short_of # Shortfall
                    => outcome.message.short_of % 2 = 0

C1_Witness ==
    /\ BalanceTooLow
    /\ pc = "done"
    /\ outcome.kind = "raised"
    /\ Shortfall = 3
    /\ outcome.message.short_of = 2

\* C2: once the recipient is resolved and is not self-owned, the call has
\* ended with the non-self-owned error; only the profile and recipient
\* listings were issued (no balance read, quote, create-transfer or fund) and
\* no notification was sent.
C2_NonSelfOwnedFailsFirst ==
    (op = "transfer" /\ loc.recipient # NoneRecipient /\ ~loc.recipient.is_self_owned) =>
        /\ pc = "done"
        /\ outcome.kind = "raised"
        /\ outcome.error = "TransferringMoneyToNonSelfOwnedAccountsException"
        /\ calls = <<[name |-> "listProfiles", result |-> "ok"],
                     [name |-> "listRecipients", result |-> "ok"]>>
        /\ notifications = <<>>

C2_Witness ==
    /\ op = "transfer"
    /\ loc.recipient # NoneRecipient
    /\ ~loc.recipient.is_self_owned
    /\ loc.recipient.account_number = args.recipient_account_number
    /\ outcome.kind = "raised"

\* C6: on the insufficient-funds path nothing has been sent while the error
\* is still inside the call, and when it reaches the caller exactly one
\* notification has been sent, the failure one.
C6_OneFailureNotificationBeforeRaise ==
    /\ (op = "transfer" /\ pc = "except_insufficient_funds") =>
          (outcome = NoOutcome /\ notifications = <<>>)
    /\ (op = "transfer" /\ outcome.kind = "raised"
          /\ outcome.error = "InsufficientFundsException") =>
          /\ Len(notifications) = 1
          /\ notifications[1].kind = "transfer_failed"
          /\ Sent("transfer_succeeded") = 0

C6_Witness ==
    /\ op = "transfer"
    /\ outcome.kind = "raised"
    /\ outcome.error = "InsufficientFundsException"
    /\ args.from_currency = args.to_currency
    /\ loc.recipient.is_self_owned
    /\ Sent("transfer_failed") = 1

\* C7: the call returns a Transfer, with is_successful true, exactly when the
\* fund step reported COMPLETED; for any other fund status the client error
\* carries the fund's error message, one failure notification is sent, no
\* exception reaches the caller and the call returns None.
C7_TransferIffFundCompleted ==
    (op = "transfer" /\ pc = "done") =>
        /\ (outcome.kind = "returned" /\ outcome.value.type = "Transfer")
              <=> loc.fund_status = "COMPLETED"
        /\ (outcome.kind = "returned" /\ outcome.value.type = "Transfer")
              => outcome.value.is_successful
        /\ loc.fund_status \notin {"None", "COMPLETED"} =>
              /\ outcome = [kind |-> "returned", value |-> NoneValue]
              /\ loc.e.text = loc.transfer.error_message
              /\ Len(notifications) = 1
              /\ notifications[1].kind = "transfer_failed"

C7_Witness ==
    /\ op = "transfer" /\ pc = "done"
    /\ loc.fund_status = "REJECTED"
    /\ loc.e.text = "declined"
    /\ outcome = [kind |-> "returned", value |-> NoneValue]

PlaceOrderRunning == op = "place_order" /\ order # NoneValue
LastCall == calls[Len(calls)]
FailedCalls == {i \in 1..Len(calls) : calls[i].result # "ok"}
TransportLevel == {"TransportError", "ClientErrorException"}

\* C3: is_order_placed is true exactly when the reply's success flag is true
\* and its status is the literal "Submitted".
C3_PlacedIffSuccessfulAndSubmitted ==
    (op = "place_order" /\ loc.order_response # NoneValue) =>
        (loc.order_response.is_order_placed
            <=> (loc.reply.is_successful /\ loc.reply.order_status = "Submitted"))

C3_Witness ==
    /\ op = "place_order"
    /\ loc.order_response # NoneValue
    /\ loc.reply.is_successful
    /\ loc.reply.order_status = "PendingSubmit"
    /\ ~loc.order_response.is_order_placed

\* C4 as stated: execute ends either by returning the PlaceOrderResponse or
\* by a transport-level exception of an external call; no other error
\* reaches the caller.
C4_OnlyTransportErrorsPropagate ==
    (PlaceOrderRunning /\ pc = "done") =>
        \/ outcome.kind = "returned" /\ outcome.value.type = "PlaceOrderResponse"
        \/ /\ outcome.kind = "raised"
           /\ outcome.error \in TransportLevel
           /\ LastCall.result # "ok"

\* C4 amended: execute returns the PlaceOrderResponse whenever the
\* place-order call replied, placed or not; otherwise it ends by a
\* transport-level exception of an external call, or by an error raised by
\* instrument resolution, before any place-order call.
C4_ResponseOrTransportOrResolutionError ==
    /\ (PlaceOrderRunning /\ pc = "done") =>
          \/ /\ outcome.kind = "returned"
             /\ outcome.value = loc.order_response
             /\ outcome.value.type = "PlaceOrderResponse"
             /\ LastCall = [name |-> "placeOrder", result |-> "ok"]
          \/ /\ outcome.kind = "raised"
             /\ outcome.error \in TransportLevel
             /\ LastCall.result # "ok"
          \/ /\ outcome.kind = "raised"
             /\ outcome.error \notin TransportLevel
             /\ FailedCalls = {}
             /\ LastCall.name \in {"searchSymbol", "getMarketSnapshot"}
             /\ ~Issued("placeOrder")
    /\ (PlaceOrderRunning /\ pc = "done" /\ loc.reply # NoneValue) =>
          outcome.kind = "returned"

C4_Witness ==
    /\ PlaceOrderRunning /\ pc = "done"
    /\ outcome.kind = "returned"
    /\ ~outcome.value.is_order_placed
    /\ ~loc.reply.is_successful

\* C5: when the "placing order" message is not delivered, execute goes on to
\* instrument resolution; an exception can only come from a later brokerage
\* call or from instrument resolution, and a call that runs to its end has
\* submitted the order.
C5_FailedNotificationDoesNotAbort ==
    (PlaceOrderRunning /\ notifications # <<>> /\ ~notifications[1].delivered) =>
        /\ notifications[1].kind = "placing_order"
        /\ calls = <<>> => (pc = "search" /\ outcome = NoOutcome)
        /\ outcome.kind = "raised" => calls # <<>>
        /\ (pc = "done" /\ outcome.kind = "returned") => Issued("placeOrder")
        /\ (loc.stock # NoneValue /\ pc \notin {"place"}) => Issued("placeOrder")

C5_Witness ==
    /\ PlaceOrderRunning
    /\ notifications # <<>>
    /\ ~notifications[1].delivered
    /\ loc.stock # NoneValue
    /\ LastCall = [name |-> "placeOrder", result |-> "ok"]

\* C8 as stated: in PlaceOrder.execute, CancelOrder.execute and
\* Transfer.execute a failed external call is the last call of the
\* sequence, and the method ends with an exception.
C8_FailedCallAlwaysRaises ==
    /\ \A i \in FailedCalls : i = Len(calls)
    /\ (pc = "done" /\ FailedCalls # {}) => outcome.kind = "raised"

\* A ClientErrorException raised by a call inside the try block of
\* Transfer.execute: every call after the two of recipient resolution.
ClientErrorInsideTry ==
    /\ op = "transfer"
    /\ Len(calls) >= 3
    /\ LastCall.result = "client"

\* C8 amended: a failed external call is the last call of the sequence; the
\* method ends with an exception, except that Transfer.execute catches a
\* ClientErrorException of the calls inside its try block (balance read to
\* fund), sends one failure notification and returns None.
C8_FailedCallEndsSequence ==
    /\ \A i \in FailedCalls : i = Len(calls)
    /\ (pc = "done" /\ FailedCalls # {}) =>
          IF ClientErrorInsideTry
          THEN /\ outcome = [kind |-> "returned", value |-> NoneValue]
               /\ Len(notifications) = 1
               /\ notifications[1].kind = "transfer_failed"
          ELSE /\ outcome.kind = "raised"
               /\ outcome.error \in TransportLevel

C8_Witness ==
    /\ pc = "done"
    /\ ClientErrorInsideTry
    /\ LastCall.name = "createTransfer"
    /\ outcome = [kind |-> "returned", value |-> NoneValue]

ArgumentTenths(price) == IF price.t = "int" THEN 10 * price.n ELSE price.tenths
DecimalTenths(d) == d.coef * Pow10(d.exp + 1)

\* C9: a MARKET request is always constructed, with price None and
\* outsideRTH false whatever price was passed; a request of another type
\* with a price has outsideRTH true and a price of the same value.
C9_MarketDropsPrice ==
    /\ (op = "place_order" /\ args.orderType = "MKT") =>
          /\ order # NoneValue
          /\ order.price = PyNone
          /\ order.outsideRTH = FALSE
    /\ (op = "place_order" /\ args.orderType # "MKT" /\ args.price # PyNone) =>
          /\ order # NoneValue
          /\ order.outsideRTH = TRUE
          /\ order.price.t = "Decimal"
          /\ DecimalTenths(order.price) = ArgumentTenths(args.price)

C9_Witness ==
    /\ op = "place_order"
    /\ args.orderType = "MKT"
    /\ args.price = PyFloat(MaxPriceTenths)
    /\ order.price = PyNone
    /\ ~order.outsideRTH

\* C10: a request of a type other than MARKET with price None fails in the
\* constructor: there is no request object, so no notification and no
\* brokerage call.
C10_NullPriceFailsConstruction ==
    (op = "place_order" /\ args.orderType # "MKT" /\ args.price = PyNone) =>
        /\ order = NoneValue
        /\ pc = "done"
        /\ outcome.kind = "raised"
        /\ calls = <<>>
        /\ notifications = <<>>

C10_Witness ==
    /\ op = "place_order"
    /\ args.orderType = "STOP_LIMIT"
    /\ args.price = PyNone
    /\ outcome.kind = "raised"
    /\ outcome.error = "InvalidOperation"

\* C11: every custom order id the brokerage receives is the one generated at
\* class definition: it is the same across repeated execute() calls on one
\* request and across different requests.
C11_OneTokenForAllExecutions ==
    \A i \in 1..Len(tokens_sent) :
        /\ tokens_sent[i].cOID = ClassDefaultOrderId
        /\ \A j \in 1..Len(tokens_sent) : tokens_sent[i].cOID = tokens_sent[j].cOID

C11_Witness ==
    /\ Len(tokens_sent) = 2
    /\ ~tokens_sent[1].reused
    /\ tokens_sent[2].reused
    /\ args.side = "SELL"

CallNames == [i \in 1..Len(calls) |-> calls[i].name]
IsPrefix(s, t) == Len(s) <= Len(t) /\ \A i \in 1..Len(s) : s[i] = t[i]

\* C17: in CancelOrder.execute the intent message precedes the cancel call;
\* there is at most one cancel call, for the account id and order id of the
\* UnfilledOrder; the failure message follows a reply exactly when the order
\* was not cancelled; a reply always ends in returning the cancel response.
C17_CancelSequence ==
    op = "cancel_order" =>
        /\ calls # <<>> =>
              /\ notifications # <<>>
              /\ notifications[1].kind = "cancelling_order"
              /\ CallNames = <<"cancelOrder">>
              /\ loc.request = [account_id |-> args.unfilled_order.account_id,
                                order_id |-> args.unfilled_order.order_id]
        /\ Len(notifications) >= 2 =>
              /\ calls = <<[name |-> "cancelOrder", result |-> "ok"]>>
              /\ pc = "done"
        /\ (pc = "done" /\ loc.cancel_order_response # NoneValue) =>
              /\ outcome = [kind |-> "returned", value |-> loc.cancel_order_response]
              /\ outcome.value.order_id = args.unfilled_order.order_id
              /\ [i \in 1..Len(notifications) |-> notifications[i].kind]
                    = IF loc.cancel_order_response.is_order_cancelled
                      THEN <<"cancelling_order">>
                      ELSE <<"cancelling_order", "order_not_cancelled">>

C17_Witness ==
    /\ op = "cancel_order" /\ pc = "done"
    /\ outcome.kind = "returned"
    /\ ~outcome.value.is_order_cancelled
    /\ Sent("order_not_cancelled") = 1

\* C18: in PlaceOrder.execute the "placing order" message precedes every
\* brokerage call, the calls are search, contract, snapshot and then one
\* place-order call, and the single outcome message follows the place-order
\* reply: the success message when is_order_placed, else the failure one.
C18_PlaceOrderSequence ==
    PlaceOrderRunning =>
        /\ calls # <<>> => (notifications # <<>> /\ notifications[1].kind = "placing_order")
        /\ IsPrefix(CallNames, <<"searchSymbol", "getContract", "getMarketSnapshot", "placeOrder">>)
        /\ Len(notifications) <= 2
        /\ Len(notifications) = 2 =>
              /\ Issued("placeOrder") /\ FailedCalls = {}
              /\ notifications[2].kind = IF loc.order_response.is_order_placed
                                         THEN "order_placed" ELSE "order_not_placed"
        /\ (pc = "done" /\ Issued("placeOrder") /\ FailedCalls = {}) =>
              /\ Len(notifications) = 2
              /\ outcome = [kind |-> "returned", value |-> loc.order_response]

C18_Witness ==
    /\ PlaceOrderRunning /\ pc = "done"
    /\ Len(calls) = 4
    /\ Len(notifications) = 2
    /\ notifications[2].kind = "order_placed"

\* C19: the calls of Transfer.execute are a prefix of the fixed sequence
\* recipient resolution, balance pre-check, profile, quote, create-transfer,
\* fund, where the balance pre-check is there exactly for a same-currency
\* transfer; so each of quote, create-transfer and fund is issued at most
\* once and never before its predecessor.
C19_LinearSequence ==
    op = "transfer" =>
        IsPrefix(CallNames,
                 IF args.from_currency = args.to_currency
                 THEN <<"listProfiles", "listRecipients", "listProfiles", "listAccounts",
                        "listProfiles", "createQuote", "createTransfer", "fundTransfer">>
                 ELSE <<"listProfiles", "listRecipients",
                        "listProfiles", "createQuote", "createTransfer", "fundTransfer">>)

C19_Witness ==
    /\ op = "transfer"
    /\ args.from_currency # args.to_currency
    /\ Len(calls) = 6
    /\ LastCall.name = "fundTransfer"

C15_TwoGetsFetchTwiceAndCompareEqual ==
    (op = "instrument_get" /\ pc = "done" /\ loc.first # NoneValue /\ loc.stock # NoneValue) =>
        /\ CallNames = <<"searchSymbol", "getContract", "getMarketSnapshot",
                         "searchSymbol", "getContract", "getMarketSnapshot">>
        /\ outcome = [kind |-> "returned", value |-> [t |-> "bool", v |-> TRUE]]

\* C12 (as stated): when the live-orders call answers with well-formed live
\* orders, UnfilledOrder.get returns one UnfilledOrder for each live order
\* that is neither Inactive nor Cancelled, in upstream order, and nothing else.
C12_OneUnfilledOrderPerActiveLiveOrder ==
    (op = "unfilled_orders" /\ pc = "done" /\ FailedCalls = {} /\ WellFormed(loc.live_orders)) =>
        /\ outcome.kind = "returned"
        /\ Len(outcome.value.list) = Len(ActiveLiveOrders(loc.live_orders))
        /\ \A i \in 1..Len(outcome.value.list) :
              outcome.value.list[i].order_id = ActiveLiveOrders(loc.live_orders)[i].orderId

\* C13: in every list UnfilledOrder.get returns, the order built from a
\* "Limit" live order is a LIMIT order whose price has the value of the live
\* order's price, and the order built from a "Market" live order is a MARKET
\* order with price None, whatever price the live order carries.
C13_LimitKeepsPriceMarketDropsIt ==
    (op = "unfilled_orders" /\ pc = "done" /\ outcome.kind = "returned") =>
        \A i \in 1..Len(outcome.value.list) :
            LET unfilled_order == outcome.value.list[i]
                live_order == ActiveLiveOrders(loc.live_orders)[i]
            IN  /\ live_order.orderType = "Limit" =>
                      /\ unfilled_order.order_type = "LMT"
                      /\ live_order.price # PyNone
                      /\ unfilled_order.price.t = "Decimal"
                      /\ DecimalTenths(unfilled_order.price) = ArgumentTenths(live_order.price)
                /\ live_order.orderType = "Market" =>
                      /\ unfilled_order.order_type = "MKT"
                      /\ unfilled_order.price = PyNone

C13_Witness ==
    /\ op = "unfilled_orders" /\ pc = "done" /\ outcome.kind = "returned"
    /\ Len(outcome.value.list) = 2
    /\ loc.live_orders[1].orderType = "Limit"
    /\ loc.live_orders[2].orderType = "Market"
    /\ loc.live_orders[2].price # PyNone

Hundredths(d) == d.coef * Pow10(d.exp + 2)
MarketOrdersBefore(unfilled_orders, n) ==
    Cardinality({i \in 1..n : unfilled_orders[i].order_type = "MKT"})

\* The value of the first n unfilled orders, in hundredths, from the order
\* data and the last prices the lookups gave.
RECURSIVE ValueOfOrders(_, _, _)
ValueOfOrders(unfilled_orders, lookups, n) ==
    IF n = 0 THEN 0
    ELSE ValueOfOrders(unfilled_orders, lookups, n - 1) +
         DecimalTenths(unfilled_orders[n].unfilled_quantity) *
            (IF unfilled_orders[n].order_type = "LMT"
             THEN DecimalTenths(unfilled_orders[n].price)
             ELSE DecimalTenths(lookups[MarketOrdersBefore(unfilled_orders, n)]))

\* C20: the value get_all_unfilled_orders_value returns is the sum, from
\* zero, of price x unfilled_quantity over the LIMIT orders and last_price x
\* unfilled_quantity over the MARKET orders of the unfilled orders (none of
\* them Inactive or Cancelled); there was one Instrument lookup per MARKET
\* order and none for a LIMIT order, and without unfilled orders the value is
\* zero.
C20_ValueIsSumOfOrderValues ==
    (op = "orders_value" /\ pc = "done" /\ outcome.kind = "returned") =>
        LET n == Len(loc.unfilled_orders)
        IN  /\ \A i \in 1..n : loc.unfilled_orders[i].status \notin {"Inactive", "Cancelled"}
            /\ Hundredths(outcome.value.value) = ValueOfOrders(loc.unfilled_orders, loc.lookups, n)
            /\ Len(loc.lookups) = MarketOrdersBefore(loc.unfilled_orders, n)
            /\ Cardinality({i \in 1..Len(calls) : calls[i].name = "searchSymbol"})
                  = MarketOrdersBefore(loc.unfilled_orders, n)
            /\ Cardinality({i \in 1..Len(calls) : calls[i].name = "getLiveOrders"}) = 1
            /\ n = 0 => outcome.value.value = Decimal(<<"0">>)

C20_Witness ==
    /\ op = "orders_value" /\ pc = "done" /\ outcome.kind = "returned"
    /\ Len(loc.unfilled_orders) = 2
    /\ loc.unfilled_orders[1].order_type = "LMT"
    /\ loc.unfilled_orders[2].order_type = "MKT"
    /\ Hundredths(outcome.value.value) = 700

\* C21 (as stated): when the first live order that passes the status test is
\* well formed and of a type other than "Limit" and "Market",
\* get_all_unfilled_orders_value reaches that order in its loop and fails
\* there, adding the unset value_of_order to the running total.
C21_OtherTypeFailsAtSummation ==
    (/\ op = "orders_value" /\ pc = "done"
     /\ FailedCalls = {}
     /\ loc.well_formed
     /\ loc.active_types # <<>>
     /\ loc.active_types[1] \notin {"Limit", "Market"}) =>
        /\ outcome.kind = "raised"
        /\ outcome.error = "TypeError"
        /\ loc.unfilled_orders # <<>>
        /\ loc.index = 1

\* C22: when the recipient list has no recipient with the requested account
\* number, or, in a same-currency transfer, the account has no balance in the
\* source currency, Transfer.execute has ended with an error raised to the
\* caller, and no quote, create-transfer or fund call was issued.
C22_NotFoundEndsBeforeMoneyMoves ==
    /\ (/\ op = "transfer"
        /\ Len(calls) >= 2
        /\ calls[2] = [name |-> "listRecipients", result |-> "ok"]
        /\ loc.recipient_matches = 0) =>
          /\ pc = "done"
          /\ outcome.kind = "raised"
          /\ outcome.error = "AttributeError"
          /\ Len(calls) = 2
          /\ NoMoneyMoved
    /\ (/\ op = "transfer"
        /\ Len(calls) >= 4
        /\ calls[4] = [name |-> "listAccounts", result |-> "ok"]
        /\ loc.accounts_listed >= 1
        /\ loc.balance_matches = 0) =>
          /\ args.from_currency = args.to_currency
          /\ pc = "done"
          /\ outcome.kind = "raised"
          /\ outcome.error \in {"BalanceForCurrencyNotFoundException", "EnumNotFoundException"}
          /\ Len(calls) = 4
          /\ NoMoneyMoved

C22_Witness ==
    /\ op = "transfer" /\ pc = "done"
    /\ Len(calls) = 4
    /\ loc.accounts_listed = 1
    /\ loc.balance_matches = 0
    /\ outcome.kind = "raised"
    /\ outcome.error = "BalanceForCurrencyNotFoundException"
====
